---------------------------- MODULE Spec2Model ----------------------------
(***************************************************************************)
(* LC-3 virtual machine (lc3-vm): memory, register file, sign extension,   *)
(* instruction handlers, trap services, program loader and the run loop.   *)
(* Words are naturals below 2^16; memory is kept as a finite map of the    *)
(* nonzero cells of the zero-initialised array.                            *)
(***************************************************************************)
EXTENDS Integers, Sequences, FiniteSets, TLC

VARIABLES
    phase,       \* position of the client: "new", "data", "loaded", "running", "exited", "panicked",
                 \* or inside a string service: "puts", "putsp"
    regs,        \* Vm.regs : Registers {base_regs, pc, cond}
    mem,         \* Vm.mem  : Memory.mem, nonzero cells only
    running,     \* Vm.running
    term,        \* terminal mode of fd 0: "original" or "raw"
    image,       \* the reader handed to the last load_program call
    loadResult,  \* what the last load_program call returned, and the read_u16 calls it made
    instr,       \* main_loop's local `instr`, the word fetched last
    steps,       \* number of loop iterations taken
    stdout,      \* characters written to standard output so far
    panic,       \* why the session panicked: "none", "index", "stdin", "opcode", "trap"
    aborted,     \* the client has called abort()
    str_addr,    \* trap::puts / trap::putsp: the loop variable `mem_addr` of the call under way
    visited,     \* the addresses that call has read, in the order of the reads
    seValue,     \* sign_extend: argument `value`
    seBits,      \* sign_extend: argument `bit_count`
    seResult     \* sign_extend: outcome of the call

vars == <<phase, regs, mem, running, term, image, loadResult, instr, steps, stdout, panic,
          aborted, str_addr, visited, seValue, seBits, seResult>>

vmVars == <<phase, regs, mem, running, term, image, loadResult, instr, steps, stdout, panic,
            aborted, str_addr, visited>>

strVars == <<str_addr, visited>>

seVars == <<seValue, seBits, seResult>>

-----------------------------------------------------------------------------
(* Bounds of the exploration *)

\* longest program image, in words after the origin word
MaxLen == 2

\* most loop iterations followed in one run
MaxSteps == 4

\* longest data image of a library client, in words after the origin word
MaxStr == 2

-----------------------------------------------------------------------------
(* u16 arithmetic *)

WordBits == 16

WordMod == 2 ^ WordBits

Word == 0 .. (WordMod - 1)

RECURSIVE AndBits(_, _, _)
AndBits(a, b, n) ==
    IF n = 0 THEN 0
    ELSE (a % 2) * (b % 2) + 2 * AndBits(a \div 2, b \div 2, n - 1)

\* a & b
And16(a, b) == AndBits(a, b, WordBits)

\* a | b
Or16(a, b) == a + b - And16(a, b)

\* !a
Not16(a) == (WordMod - 1) - a

\* a >> k, k < 16
Shr(a, k) == a \div (2 ^ k)

\* a.wrapping_add(b)
wrapping_add(a, b) == (a + b) % WordMod

\* u16 << k with k a run-time value.  For k >= 16 the shift overflows: a
\* build with overflow checks panics, a build without them masks the shift
\* amount to its low four bits.
Shl16(a, k) ==
    IF k < WordBits
    THEN {[fault |-> FALSE, value |-> (a * (2 ^ k)) % WordMod]}
    ELSE {[fault |-> TRUE, value |-> 0],
          [fault |-> FALSE, value |-> (a * (2 ^ (k % WordBits))) % WordMod]}

\* bit_ops::sign_extend: the set of outcomes of one call
sign_extend(value, bit_count) ==
    IF And16(Shr(value, bit_count - 1), 1) = 1
    THEN {[fault |-> s.fault,
           value |-> IF s.fault THEN 0 ELSE Or16(value, s.value)] :
             s \in Shl16(65535, bit_count)}
    ELSE {[fault |-> FALSE, value |-> value]}

\* sign_extend as the instruction handlers call it: bit_count is 5, 6, 9 or
\* 11, where the call has exactly one outcome and never faults
sx(value, bit_count) == (CHOOSE r \in sign_extend(value, bit_count) : TRUE).value

-----------------------------------------------------------------------------
(* Memory *)

MEMORY_SIZE == 65535

KBSR == 65024

KBDR == 65026

\* bytes stdin may deliver
InputBytes == {0, 65}

\* what stdin holds for the next read_next_byte call: <<b>> for a byte b,
\* Eof when stdin is at its end (read_exact fails and the call panics)
Eof == << >>

Inputs == {Eof} \cup {<<b>> : b \in InputBytes}

\* Memory::new
EmptyMem == [a \in {} |-> 0]

\* self.mem[address], for an index inside the array
Cell(m, address) == IF address \in DOMAIN m THEN m[address] ELSE 0

\* self.mem[address] = value, for an index inside the array
SetCell(m, address, value) ==
    IF value = 0
    THEN [a \in (DOMAIN m) \ {address} |-> m[a]]
    ELSE [a \in (DOMAIN m) \cup {address} |-> IF a = address THEN value ELSE m[a]]

\* array indexing is bounds-checked: an index >= MEMORY_SIZE panics
InBounds(address) == address < MEMORY_SIZE

\* Memory::read; inp is what stdin delivers if the read polls the keyboard
Memory_read(m, address, inp) ==
    IF address = KBSR /\ inp = Eof
    THEN [mem |-> m, value |-> 0, fault |-> "stdin"]
    ELSE LET polled ==
                 IF address = KBSR
                 THEN IF inp[1] # 0
                      THEN SetCell(SetCell(m, KBSR, 2 ^ 15), KBDR, inp[1])
                      ELSE SetCell(m, KBSR, 0)
                 ELSE m
         IN  IF InBounds(address)
             THEN [mem |-> polled, value |-> Cell(polled, address), fault |-> "none"]
             ELSE [mem |-> polled, value |-> 0, fault |-> "index"]

\* Memory::write
Memory_write(m, address, value) ==
    IF InBounds(address)
    THEN [mem |-> SetCell(m, address, value), fault |-> "none"]
    ELSE [mem |-> m, fault |-> "index"]

-----------------------------------------------------------------------------
(* Registers *)

PC_START == 12288

Pos == 1

Zero == 2

Neg == 4

\* Registers::new
NewRegisters == [base_regs |-> [i \in 0 .. 7 |-> 0], pc |-> PC_START, cond |-> Zero]

\* Registers::read
Registers_read(r, base_register_index) == r.base_regs[base_register_index]

\* Registers::write
Registers_write(r, base_register_index, value) ==
    [r EXCEPT !.base_regs[base_register_index] = value]

\* update_cond_flags with the sign test inverted
update_cond_flags_inverted(r, last_value) ==
    [r EXCEPT !.cond = IF last_value = 0 THEN Zero
                       ELSE IF Shr(last_value, 15) = 1 THEN Pos
                       ELSE Neg]

\* Registers::update_cond_flags
update_cond_flags(r, last_value) ==
    [r EXCEPT !.cond = IF last_value = 0 THEN Zero
                       ELSE IF Shr(last_value, 15) = 1 THEN Neg
                       ELSE Pos]

-----------------------------------------------------------------------------
(* Instruction handlers (instructions.rs) *)

\* BR that branches on any nonzero nzp field, whatever the flag
br_any(i, r) ==
    LET nzp == Shr(i, 9)
    IN  IF nzp > 0
        THEN [r EXCEPT !.pc = wrapping_add(r.pc, sx(And16(i, 511), 9))]
        ELSE r

\* BR
br(i, r) ==
    LET nzp == Shr(i, 9)
    IN  IF And16(nzp, r.cond) > 0
        THEN [r EXCEPT !.pc = wrapping_add(r.pc, sx(And16(i, 511), 9))]
        ELSE r

\* ADD that uses imm5 without sign extension
add_unsigned_imm(i, r) ==
    LET dest_reg == And16(Shr(i, 9), 7)
        src_reg1 == And16(Shr(i, 6), 7)
        mode     == And16(Shr(i, 5), 1)
        value    == IF mode = 1
                    THEN wrapping_add(Registers_read(r, src_reg1), And16(i, 31))
                    ELSE wrapping_add(Registers_read(r, src_reg1),
                                      Registers_read(r, And16(i, 7)))
    IN  update_cond_flags(Registers_write(r, dest_reg, value), value)

\* ADD
add(i, r) ==
    LET dest_reg == And16(Shr(i, 9), 7)
        src_reg1 == And16(Shr(i, 6), 7)
        mode     == And16(Shr(i, 5), 1)
        value    == IF mode = 1
                    THEN wrapping_add(Registers_read(r, src_reg1), sx(And16(i, 31), 5))
                    ELSE wrapping_add(Registers_read(r, src_reg1),
                                      Registers_read(r, And16(i, 7)))
    IN  update_cond_flags(Registers_write(r, dest_reg, value), value)

\* LD
ld(i, r, m, inp) ==
    LET dest_reg  == And16(Shr(i, 9), 7)
        pc_offset == sx(And16(i, 511), 9)
        rd        == Memory_read(m, wrapping_add(r.pc, pc_offset), inp)
    IN  IF rd.fault # "none"
        THEN [regs |-> r, mem |-> rd.mem, fault |-> rd.fault]
        ELSE [regs |-> update_cond_flags(Registers_write(r, dest_reg, rd.value), rd.value),
              mem |-> rd.mem, fault |-> "none"]

\* ST
st(i, r, m) ==
    LET src_reg   == And16(Shr(i, 9), 7)
        pc_offset == sx(And16(i, 511), 9)
    IN  Memory_write(m, wrapping_add(r.pc, pc_offset), Registers_read(r, src_reg))

\* JSR / JSRR that sets the condition flag from the saved return address
jsr_setcc(i, r) ==
    LET r1   == update_cond_flags(Registers_write(r, 7, r.pc), r.pc)
        flag == And16(Shr(i, 11), 1)
    IN  IF flag = 1
        THEN [r1 EXCEPT !.pc = wrapping_add(r1.pc, sx(And16(i, 2047), 11))]
        ELSE [r1 EXCEPT !.pc = Registers_read(r1, And16(Shr(i, 6), 7))]

\* JSR / JSRR that saves R7 after the jump instead of before it
jsr_late(i, r) ==
    LET flag == And16(Shr(i, 11), 1)
        r1   == IF flag = 1
                THEN [r EXCEPT !.pc = wrapping_add(r.pc, sx(And16(i, 2047), 11))]
                ELSE [r EXCEPT !.pc = Registers_read(r, And16(Shr(i, 6), 7))]
    IN  Registers_write(r1, 7, r1.pc)

\* JSR / JSRR that reads BaseR before it saves the PC in R7
jsr_base_first(i, r) ==
    LET flag   == And16(Shr(i, 11), 1)
        target == IF flag = 1
                  THEN wrapping_add(r.pc, sx(And16(i, 2047), 11))
                  ELSE Registers_read(r, And16(Shr(i, 6), 7))
    IN  [Registers_write(r, 7, r.pc) EXCEPT !.pc = target]

\* JSR / JSRR
jsr(i, r) ==
    LET r1   == Registers_write(r, 7, r.pc)
        flag == And16(Shr(i, 11), 1)
    IN  IF flag = 1
        THEN [r1 EXCEPT !.pc = wrapping_add(r1.pc, sx(And16(i, 2047), 11))]
        ELSE [r1 EXCEPT !.pc = Registers_read(r1, And16(Shr(i, 6), 7))]

\* AND
and(i, r) ==
    LET dest_reg == And16(Shr(i, 9), 7)
        src_reg1 == And16(Shr(i, 6), 7)
        mode     == And16(Shr(i, 5), 1)
        value    == IF mode = 1
                    THEN And16(Registers_read(r, src_reg1), sx(And16(i, 31), 5))
                    ELSE And16(Registers_read(r, src_reg1),
                               Registers_read(r, And16(i, 7)))
    IN  update_cond_flags(Registers_write(r, dest_reg, value), value)

\* LDR
ldr(i, r, m, inp) ==
    LET dest_reg == And16(Shr(i, 9), 7)
        base_reg == And16(Shr(i, 6), 7)
        offset   == sx(And16(i, 63), 6)
        rd       == Memory_read(m, wrapping_add(Registers_read(r, base_reg), offset), inp)
    IN  IF rd.fault # "none"
        THEN [regs |-> r, mem |-> rd.mem, fault |-> rd.fault]
        ELSE [regs |-> update_cond_flags(Registers_write(r, dest_reg, rd.value), rd.value),
              mem |-> rd.mem, fault |-> "none"]

\* STR
str(i, r, m) ==
    LET src_reg  == And16(Shr(i, 9), 7)
        base_reg == And16(Shr(i, 6), 7)
        offset   == sx(And16(i, 63), 6)
    IN  Memory_write(m, wrapping_add(Registers_read(r, base_reg), offset),
                     Registers_read(r, src_reg))

\* NOT
not(i, r) ==
    LET dest_reg == And16(Shr(i, 9), 7)
        src_reg  == And16(Shr(i, 6), 7)
        value    == Not16(Registers_read(r, src_reg))
    IN  update_cond_flags(Registers_write(r, dest_reg, value), value)

\* LDI
ldi(i, r, m, inp) ==
    LET dest_reg  == And16(Shr(i, 9), 7)
        pc_offset == sx(And16(i, 511), 9)
        rd1       == Memory_read(m, wrapping_add(r.pc, pc_offset), inp)
        rd2       == Memory_read(rd1.mem, rd1.value, inp)
    IN  IF rd1.fault # "none"
        THEN [regs |-> r, mem |-> rd1.mem, fault |-> rd1.fault]
        ELSE IF rd2.fault # "none"
        THEN [regs |-> r, mem |-> rd2.mem, fault |-> rd2.fault]
        ELSE [regs |-> update_cond_flags(Registers_write(r, dest_reg, rd2.value), rd2.value),
              mem |-> rd2.mem, fault |-> "none"]

\* STI
sti(i, r, m, inp) ==
    LET src_reg   == And16(Shr(i, 9), 7)
        pc_offset == sx(And16(i, 511), 9)
        rd        == Memory_read(m, wrapping_add(r.pc, pc_offset), inp)
    IN  IF rd.fault # "none"
        THEN [mem |-> rd.mem, fault |-> rd.fault]
        ELSE Memory_write(rd.mem, rd.value, Registers_read(r, src_reg))

\* JMP / RET
jmp(i, r) == [r EXCEPT !.pc = Registers_read(r, And16(Shr(i, 6), 7))]

\* LEA that adds the offset to the address the instruction was fetched from
lea_unincremented(i, r) ==
    LET dest_reg  == And16(Shr(i, 9), 7)
        pc_offset == sx(And16(i, 511), 9)
        value     == wrapping_add(wrapping_add(r.pc, 65535), pc_offset)
    IN  update_cond_flags(Registers_write(r, dest_reg, value), value)

\* LEA
lea(i, r) ==
    LET dest_reg  == And16(Shr(i, 9), 7)
        pc_offset == sx(And16(i, 511), 9)
        value     == wrapping_add(r.pc, pc_offset)
    IN  update_cond_flags(Registers_write(r, dest_reg, value), value)

-----------------------------------------------------------------------------
(* Trap services (instructions/trap.rs) *)

GETC == 32

OUT == 33

PUTS == 34

IN_ == 35

PUTSP == 36

HALT == 37

TrapCodes == {GETC, OUT, PUTS, IN_, PUTSP, HALT}

\* "Enter character: "
Prompt == <<69, 110, 116, 101, 114, 32, 99, 104, 97, 114, 97, 99, 116, 101, 114, 58, 32>>

\* "HALT"
HaltText == <<72, 65, 76, 84>>

\* trap::getc
getc(r, m, inp) ==
    IF inp = Eof
    THEN [regs |-> r, mem |-> m, out |-> << >>, fault |-> "stdin", halt |-> FALSE]
    ELSE [regs |-> Registers_write(r, 0, inp[1]), mem |-> m, out |-> << >>,
          fault |-> "none", halt |-> FALSE]

\* OUT whose arm in trap stops the engine as HALT's does
out_halts(r, m) ==
    [regs |-> r, mem |-> m, out |-> <<Registers_read(r, 0) % 256>>,
     fault |-> "none", halt |-> TRUE]

\* trap::out
out(r, m) ==
    [regs |-> r, mem |-> m, out |-> <<Registers_read(r, 0) % 256>>,
     fault |-> "none", halt |-> FALSE]

\* the loop of puts with the zero test after the print: the terminator is printed too
RECURSIVE puts_loop_late(_, _, _, _)
puts_loop_late(m, mem_addr, inp, acc) ==
    IF mem_addr >= MEMORY_SIZE
    THEN [mem |-> m, out |-> acc, fault |-> "none"]
    ELSE LET rd == Memory_read(m, mem_addr, inp)
         IN  IF rd.fault # "none" THEN [mem |-> rd.mem, out |-> acc, fault |-> rd.fault]
             ELSE IF rd.value = 0
             THEN [mem |-> rd.mem, out |-> Append(acc, 0), fault |-> "none"]
             ELSE puts_loop_late(rd.mem, mem_addr + 1, inp, Append(acc, rd.value % 256))

\* the loop of trap::puts, entered at mem_addr with acc printed so far
RECURSIVE puts_loop(_, _, _, _)
puts_loop(m, mem_addr, inp, acc) ==
    IF mem_addr >= MEMORY_SIZE
    THEN [mem |-> m, out |-> acc, fault |-> "none"]
    ELSE LET rd == Memory_read(m, mem_addr, inp)
         IN  IF rd.fault # "none" THEN [mem |-> rd.mem, out |-> acc, fault |-> rd.fault]
             ELSE IF rd.value = 0 THEN [mem |-> rd.mem, out |-> acc, fault |-> "none"]
             ELSE puts_loop(rd.mem, mem_addr + 1, inp, Append(acc, rd.value % 256))

\* trap::puts
puts(r, m, inp) ==
    LET l == puts_loop(m, Registers_read(r, 0), inp, << >>)
    IN  [regs |-> r, mem |-> l.mem, out |-> l.out, fault |-> l.fault, halt |-> FALSE]

\* the loop of putsp ending the string at a word whose high byte is zero
RECURSIVE putsp_loop_high_ends(_, _, _, _)
putsp_loop_high_ends(m, mem_addr, inp, acc) ==
    IF mem_addr >= MEMORY_SIZE
    THEN [mem |-> m, out |-> acc, fault |-> "none"]
    ELSE LET rd == Memory_read(m, mem_addr, inp)
         IN  IF rd.fault # "none" THEN [mem |-> rd.mem, out |-> acc, fault |-> rd.fault]
             ELSE IF rd.value = 0 THEN [mem |-> rd.mem, out |-> acc, fault |-> "none"]
             ELSE IF Shr(rd.value, 8) = 0
             THEN [mem |-> rd.mem, out |-> Append(acc, rd.value % 256), fault |-> "none"]
             ELSE putsp_loop_high_ends(rd.mem, mem_addr + 1, inp,
                                       acc \o <<rd.value % 256, Shr(rd.value, 8)>>)

\* the loop of trap::putsp, entered at mem_addr with acc printed so far
RECURSIVE putsp_loop(_, _, _, _)
putsp_loop(m, mem_addr, inp, acc) ==
    IF mem_addr >= MEMORY_SIZE
    THEN [mem |-> m, out |-> acc, fault |-> "none"]
    ELSE LET rd == Memory_read(m, mem_addr, inp)
         IN  IF rd.fault # "none" THEN [mem |-> rd.mem, out |-> acc, fault |-> rd.fault]
             ELSE IF rd.value = 0 THEN [mem |-> rd.mem, out |-> acc, fault |-> "none"]
             ELSE putsp_loop(rd.mem, mem_addr + 1, inp,
                             acc \o <<rd.value % 256, Shr(rd.value, 8)>>)

\* trap::putsp
putsp(r, m, inp) ==
    LET l == putsp_loop(m, Registers_read(r, 0), inp, << >>)
    IN  [regs |-> r, mem |-> l.mem, out |-> l.out, fault |-> l.fault, halt |-> FALSE]

\* trap::in
trap_in(r, m, inp) ==
    IF inp = Eof
    THEN [regs |-> r, mem |-> m, out |-> Prompt, fault |-> "stdin", halt |-> FALSE]
    ELSE [regs |-> Registers_write(r, 0, inp[1]), mem |-> m, out |-> Prompt,
          fault |-> "none", halt |-> FALSE]

\* HALT that clears R0 on the way out
halt_clobber(r, m) ==
    [regs |-> Registers_write(r, 0, 0), mem |-> m, out |-> HaltText,
     fault |-> "none", halt |-> TRUE]

\* trap::halt, and the `return true` of its arm in trap
halt(r, m) ==
    [regs |-> r, mem |-> m, out |-> HaltText, fault |-> "none", halt |-> TRUE]

\* TRAP that takes its vector from bits 11..0
trap_low12(i, r, m, inp) ==
    LET trapvector == And16(i, 4095)
    IN  IF trapvector = GETC THEN getc(r, m, inp)
        ELSE IF trapvector = OUT THEN out(r, m)
        ELSE IF trapvector = PUTS THEN puts(r, m, inp)
        ELSE IF trapvector = IN_ THEN trap_in(r, m, inp)
        ELSE IF trapvector = PUTSP THEN putsp(r, m, inp)
        ELSE IF trapvector = HALT THEN halt(r, m)
        ELSE [regs |-> r, mem |-> m, out |-> << >>, fault |-> "trap", halt |-> FALSE]

\* TRAP
trap(i, r, m, inp) ==
    LET trapvector == And16(i, 255)
    IN  IF trapvector = GETC THEN getc(r, m, inp)
        ELSE IF trapvector = OUT THEN out(r, m)
        ELSE IF trapvector = PUTS THEN puts(r, m, inp)
        ELSE IF trapvector = IN_ THEN trap_in(r, m, inp)
        ELSE IF trapvector = PUTSP THEN putsp(r, m, inp)
        ELSE IF trapvector = HALT THEN halt(r, m)
        ELSE [regs |-> r, mem |-> m, out |-> << >>, fault |-> "trap", halt |-> FALSE]

-----------------------------------------------------------------------------
(* Program loader (vm.rs) *)

\* How a reader ends after its complete words: at a clean end, with one
\* dangling byte, or with an I/O error other than end-of-stream
Ends == {"eof", "partial", "ioerr"}

\* the k-th reader.read_u16::<BigEndian>() call on the reader rd
read_u16(rd, k) ==
    IF k <= Len(rd.data) THEN [kind |-> "Ok", value |-> rd.data[k]]
    ELSE IF rd.end = "ioerr" THEN [kind |-> "Other", value |-> 0]
    ELSE [kind |-> "UnexpectedEof", value |-> 0]

\* the for loop of load_program with the error arm treated like end-of-stream
RECURSIVE load_loop_swallow(_, _, _, _)
load_loop_swallow(m, rd, address, k) ==
    IF address >= MEMORY_SIZE
    THEN [mem |-> m, result |-> "Ok", reads |-> k - 1]
    ELSE LET w == read_u16(rd, k)
         IN  IF w.kind = "Ok"
             THEN load_loop_swallow(Memory_write(m, address, w.value).mem, rd,
                                    address + 1, k + 1)
             ELSE [mem |-> m, result |-> "Ok", reads |-> k]

\* the for loop of load_program, entered at `address` with k - 1 words read
RECURSIVE load_loop(_, _, _, _)
load_loop(m, rd, address, k) ==
    IF address >= MEMORY_SIZE
    THEN [mem |-> m, result |-> "Ok", reads |-> k - 1]
    ELSE LET w == read_u16(rd, k)
         IN  IF w.kind = "Ok"
             THEN load_loop(Memory_write(m, address, w.value).mem, rd, address + 1, k + 1)
             ELSE IF w.kind = "UnexpectedEof"
             THEN [mem |-> m, result |-> "Ok", reads |-> k]
             ELSE [mem |-> m, result |-> "Err", reads |-> k]

\* Vm::load_program
load_program(m, rd) ==
    LET origin == read_u16(rd, 1)
    IN  IF origin.kind # "Ok"
        THEN [mem |-> m, result |-> "Err", reads |-> 1]
        ELSE load_loop(m, rd, origin.value, 2)

-----------------------------------------------------------------------------
(* Inputs of the exploration *)

\* Words a program image is built from: instructions of every opcode and
\* trap vector, and data words
Pool ==
    { 1025,    \* 0x0401  BRz  +1
      2049,    \* 0x0801  BRn  +1
      4095,    \* 0x0FFF  BRnzp -1
      4129,    \* 0x1021  ADD  R0, R0, #1
      4159,    \* 0x103F  ADD  R0, R0, #-1
      4672,    \* 0x1240  ADD  R1, R1, R0
      8703,    \* 0x21FF  LD   R0, #-1
      12288,   \* 0x3000  ST   R0, #0
      16384,   \* 0x4000  JSRR R0
      16832,   \* 0x41C0  JSRR R7
      18437,   \* 0x4805  JSR  +5
      21088,   \* 0x5260  AND  R1, R1, #0
      24576,   \* 0x6000  LDR  R0, R0, #0
      28672,   \* 0x7000  STR  R0, R0, #0
      32768,   \* 0x8000  RTI
      36927,   \* 0x903F  NOT  R0, R0
      40960,   \* 0xA000  LDI  R0, #0
      45056,   \* 0xB000  STI  R0, #0
      49152,   \* 0xC000  JMP  R0
      53248,   \* 0xD000  reserved opcode
      57855,   \* 0xE1FF  LEA  R0, #-1
      61472,   \* 0xF020  TRAP GETC
      61473,   \* 0xF021  TRAP OUT
      61474,   \* 0xF022  TRAP PUTS
      61475,   \* 0xF023  TRAP IN
      61476,   \* 0xF024  TRAP PUTSP
      61477,   \* 0xF025  TRAP HALT
      61478,   \* 0xF026  TRAP with an unsupported vector
      20479,   \* 0x4FFF  JSR  -1
      65024 }  \* 0xFE00  the keyboard status address as a data word

\* Load origins: the start address, and the last address but one
Origins == {12288, 65534}

\* sequences over S of length at most n
SeqUpTo(S, n) == UNION {[1 .. k -> S] : k \in 0 .. n}

\* Readers handed to load_program: empty, or an origin word and up to
\* MaxLen words, ending in each of the three ways
Images ==
    {[data |-> d, end |-> e] :
        d \in {<< >>} \cup {<<o>> \o ws : o \in Origins, ws \in SeqUpTo(Pool, MaxLen)},
        e \in Ends}

\* Words of the data images: zero, 'H', 'H' below a high byte 1, and a high
\* byte 1 above a zero low byte; as instructions all four are BR with nzp = 000
CharWords == {0, 72, 328, 256}

\* Origins of the data images: low memory, the address below KBSR, KBSR,
\* and the last three cells of the array
DataOrigins == {256, 65023, 65024, 65533}

\* The second word of a code image: every trap vector of Pool, vectors
\* 0x1F, 0x25 and 0x22 under nonzero bits 11..8, JMP R0, RTI and the
\* reserved opcode
CodeWords ==
    { 61471,   \* 0xF01F  TRAP with an unsupported vector
      61472, 61473, 61474, 61475, 61476, 61477, 61478,
      61730,   \* 0xF122  TRAP PUTS, bit 8 set
      65317,   \* 0xFF25  TRAP HALT, bits 11..8 set
      49152,   \* 0xC000  JMP  R0
      32768,   \* 0x8000  RTI
      53248 }  \* 0xD000  reserved opcode

\* Readers of the client's data images: an origin and up to MaxStr words
DataImages ==
    {[data |-> <<o>> \o ws, end |-> "eof"] :
        o \in DataOrigins, ws \in SeqUpTo(CharWords, MaxStr)}

\* Readers of the client's code images: 0x3000, LD R0,#1, X, ptr
CodeImages ==
    {[data |-> <<PC_START, 8193, x, ptr>>, end |-> "eof"] :
        x \in CodeWords, ptr \in DataOrigins}

NoImage == [data |-> << >>, end |-> "none"]

NoLoad == [result |-> "none", reads |-> 0]

NoResult == [done |-> FALSE, fault |-> FALSE, value |-> 0]

-----------------------------------------------------------------------------
(* The session: Vm::new, load_program, run, abort *)

\* Vm::new; the terminal is in its original mode
VmInit ==
    /\ phase = "new"
    /\ regs = NewRegisters
    /\ mem = EmptyMem
    /\ running = FALSE
    /\ term = "original"
    /\ image = NoImage
    /\ loadResult = NoLoad
    /\ instr = 0
    /\ steps = 0
    /\ stdout = << >>
    /\ panic = "none"
    /\ aborted = FALSE
    /\ str_addr = 0
    /\ visited = << >>

Init ==
    /\ VmInit
    /\ seValue = 0
    /\ seBits = 1
    /\ seResult = NoResult

\* load_program that also moves the PC to the origin word of the image
LoadProgram_sets_pc ==
    /\ phase = "new"
    /\ \E rd \in Images :
          LET res == load_program(mem, rd)
          IN  /\ mem' = res.mem
              /\ loadResult' = [result |-> res.result, reads |-> res.reads]
              /\ image' = rd
              /\ regs' = IF Len(rd.data) > 0 THEN [regs EXCEPT !.pc = rd.data[1]] ELSE regs
    /\ phase' = "loaded"
    /\ UNCHANGED <<running, term, instr, steps, stdout, panic, aborted, strVars, seVars>>

\* vm.load_program(reader)
LoadProgram ==
    /\ phase = "new"
    /\ \E rd \in Images :
          LET res == load_program(mem, rd)
          IN  /\ mem' = res.mem
              /\ loadResult' = [result |-> res.result, reads |-> res.reads]
              /\ image' = rd
    /\ phase' = "loaded"
    /\ UNCHANGED <<regs, running, term, instr, steps, stdout, panic, aborted, strVars, seVars>>

\* vm.run() up to the call of main_loop: disable_input_buffering puts the
\* terminal in raw mode, running = true
Run ==
    /\ phase \in {"new", "loaded"}
    /\ term' = "raw"
    /\ running' = TRUE
    /\ phase' = "running"
    /\ image' = NoImage
    /\ loadResult' = NoLoad
    /\ UNCHANGED <<regs, mem, instr, steps, stdout, panic, aborted, strVars, seVars>>

\* vm.abort(); run borrows the Vm exclusively, so abort is called outside it
Abort ==
    /\ phase \in {"new", "data", "loaded", "exited"}
    /\ running' = FALSE
    /\ aborted' = TRUE
    /\ UNCHANGED <<phase, regs, mem, term, image, loadResult, instr, steps, stdout, panic,
                   strVars, seVars>>

\* vm.run() after main_loop returned: restore_input_buffering
RunReturn ==
    /\ phase = "running"
    /\ ~running
    /\ term' = "original"
    /\ phase' = "exited"
    /\ UNCHANGED <<regs, mem, running, image, loadResult, instr, steps, stdout, panic,
                   aborted, strVars, seVars>>

-----------------------------------------------------------------------------
(* main_loop: one action per arm of the dispatch, each a whole iteration *)

\* `while self.running`
LoopGuard == phase = "running" /\ running /\ steps < MaxSteps

\* self.mem.read(self.regs.pc)
Fetch(inp) == Memory_read(mem, regs.pc, inp)

\* self.regs.pc = self.regs.pc.wrapping_add(1)
Advance(r) == [r EXCEPT !.pc = wrapping_add(r.pc, 1)]

\* an opcode taken from bits 14..12 only
OpOf_low3(i) == Shr(i, 12) % 8

\* instr >> 12
OpOf(i) == Shr(i, 12)

\* the fetch succeeded and the opcode of the fetched word is op
Fetched(inp, op) ==
    /\ LoopGuard
    /\ Fetch(inp).fault = "none"
    /\ OpOf(Fetch(inp).value) = op
    /\ instr' = Fetch(inp).value
    /\ steps' = steps + 1

\* an instruction that works on the registers only; r is its handler's result
RegsOnly(inp, r) ==
    /\ regs' = r
    /\ mem' = Fetch(inp).mem
    /\ UNCHANGED <<phase, panic, running, term, image, loadResult, stdout, aborted, strVars, seVars>>

\* an instruction that reads memory into a register; h is the handler's result
Loads(h) ==
    /\ regs' = h.regs
    /\ mem' = h.mem
    /\ phase' = IF h.fault # "none" THEN "panicked" ELSE phase
    /\ panic' = h.fault
    /\ UNCHANGED <<running, term, image, loadResult, stdout, aborted, strVars, seVars>>

\* an instruction that writes memory; h is the handler's result
Stores(h) ==
    /\ regs' = Advance(regs)
    /\ mem' = h.mem
    /\ phase' = IF h.fault # "none" THEN "panicked" ELSE phase
    /\ panic' = h.fault
    /\ UNCHANGED <<running, term, image, loadResult, stdout, aborted, strVars, seVars>>

\* a panic in the dispatch itself
Panics(inp) ==
    /\ regs' = Advance(regs)
    /\ mem' = Fetch(inp).mem
    /\ phase' = "panicked"
    /\ panic' = "opcode"
    /\ UNCHANGED <<running, term, image, loadResult, stdout, aborted, strVars, seVars>>

\* the fetch panics: the index is outside the array, or stdin is at its end
FetchFault ==
    /\ LoopGuard
    /\ \E inp \in Inputs :
          /\ Fetch(inp).fault # "none"
          /\ mem' = Fetch(inp).mem
          /\ panic' = Fetch(inp).fault
    /\ phase' = "panicked"
    /\ steps' = steps + 1
    /\ UNCHANGED <<regs, running, term, image, loadResult, instr, stdout, aborted, strVars, seVars>>

ExecBr ==
    \E inp \in Inputs :
        Fetched(inp, 0) /\ RegsOnly(inp, br(Fetch(inp).value, Advance(regs)))

ExecAdd ==
    \E inp \in Inputs :
        Fetched(inp, 1) /\ RegsOnly(inp, add(Fetch(inp).value, Advance(regs)))

ExecLd ==
    \E inp \in Inputs :
        Fetched(inp, 2) /\ Loads(ld(Fetch(inp).value, Advance(regs), Fetch(inp).mem, inp))

ExecSt ==
    \E inp \in Inputs :
        Fetched(inp, 3) /\ Stores(st(Fetch(inp).value, Advance(regs), Fetch(inp).mem))

ExecJsr ==
    \E inp \in Inputs :
        Fetched(inp, 4) /\ RegsOnly(inp, jsr(Fetch(inp).value, Advance(regs)))

ExecAnd ==
    \E inp \in Inputs :
        Fetched(inp, 5) /\ RegsOnly(inp, and(Fetch(inp).value, Advance(regs)))

ExecLdr ==
    \E inp \in Inputs :
        Fetched(inp, 6) /\ Loads(ldr(Fetch(inp).value, Advance(regs), Fetch(inp).mem, inp))

ExecStr ==
    \E inp \in Inputs :
        Fetched(inp, 7) /\ Stores(str(Fetch(inp).value, Advance(regs), Fetch(inp).mem))

ExecRti ==
    \E inp \in Inputs :
        Fetched(inp, 8) /\ Panics(inp)

ExecNot ==
    \E inp \in Inputs :
        Fetched(inp, 9) /\ RegsOnly(inp, not(Fetch(inp).value, Advance(regs)))

ExecLdi ==
    \E inp \in Inputs :
        Fetched(inp, 10) /\ Loads(ldi(Fetch(inp).value, Advance(regs), Fetch(inp).mem, inp))

ExecSti ==
    \E inp \in Inputs :
        Fetched(inp, 11) /\ Stores(sti(Fetch(inp).value, Advance(regs), Fetch(inp).mem, inp))

ExecJmp ==
    \E inp \in Inputs :
        Fetched(inp, 12) /\ RegsOnly(inp, jmp(Fetch(inp).value, Advance(regs)))

ExecRes ==
    \E inp \in Inputs :
        Fetched(inp, 13) /\ Panics(inp)

ExecLea ==
    \E inp \in Inputs :
        Fetched(inp, 14) /\ RegsOnly(inp, lea(Fetch(inp).value, Advance(regs)))

ExecTrap ==
    \E inp \in Inputs :
        /\ Fetched(inp, 15)
        /\ LET t == trap(Fetch(inp).value, Advance(regs), Fetch(inp).mem, inp)
           IN  /\ regs' = t.regs
               /\ mem' = t.mem
               /\ stdout' = stdout \o t.out
               /\ phase' = IF t.fault # "none" THEN "panicked" ELSE phase
               /\ panic' = t.fault
               /\ running' = IF t.fault = "none" /\ t.halt THEN FALSE ELSE running
        /\ UNCHANGED <<term, image, loadResult, aborted, strVars, seVars>>

Next ==
    \/ LoadProgram
    \/ Run
    \/ RunReturn
    \/ FetchFault
    \/ ExecBr
    \/ ExecAdd
    \/ ExecLd
    \/ ExecSt
    \/ ExecJsr
    \/ ExecAnd
    \/ ExecLdr
    \/ ExecStr
    \/ ExecRti
    \/ ExecNot
    \/ ExecLdi
    \/ ExecSti
    \/ ExecJmp
    \/ ExecRes
    \/ ExecLea
    \/ ExecTrap

Spec == Init /\ [][Next]_vars

-----------------------------------------------------------------------------
(* A client of the library: it loads a data image, then a code image,     *)
(* may call abort() between its other calls, and runs. The code image is  *)
(* LD R0,#1 ; X ; ptr at 0x3000: the run loads ptr into R0 and executes X *)

\* vm.load_program(reader) with a data image, the client's first load
LoadData ==
    /\ phase = "new"
    /\ \E rd \in DataImages :
          LET res == load_program(mem, rd)
          IN  /\ mem' = res.mem
              /\ loadResult' = [result |-> res.result, reads |-> res.reads]
              /\ image' = rd
    /\ phase' = "data"
    /\ UNCHANGED <<regs, running, term, instr, steps, stdout, panic, aborted, strVars, seVars>>

\* vm.load_program(reader) with a code image, the client's second load
LoadCode ==
    /\ phase = "data"
    /\ \E rd \in CodeImages :
          LET res == load_program(mem, rd)
          IN  /\ mem' = res.mem
              /\ loadResult' = [result |-> res.result, reads |-> res.reads]
              /\ image' = rd
    /\ phase' = "loaded"
    /\ UNCHANGED <<regs, running, term, instr, steps, stdout, panic, aborted, strVars, seVars>>

NextClient ==
    \/ LoadData
    \/ LoadCode
    \/ Abort
    \/ Run
    \/ RunReturn
    \/ FetchFault
    \/ ExecBr
    \/ ExecLd
    \/ ExecRti
    \/ ExecJmp
    \/ ExecRes
    \/ ExecTrap

SpecClient == Init /\ [][NextClient]_vars

-----------------------------------------------------------------------------
(* trap::puts and trap::putsp, one loop iteration at a time. The start is  *)
(* the client's session inside its second iteration: after its two loads, *)
(* run(), LD R0,#1 and the fetch of the TRAP word at 0x3001, at the first  *)
(* line of the service                                                     *)

\* the code images whose second word is TRAP PUTS or TRAP PUTSP
StrCodeImages == {c \in CodeImages : c.data[3] % 256 \in {PUTS, PUTSP}}

\* the range of the for loops without its upper end
in_range_unbounded(a) == TRUE

\* `regs.read(0)..(MEMORY_SIZE as u16)`: a is a value of the range
in_range(a) == a < MEMORY_SIZE

InitStr ==
    /\ \E d \in DataImages, c \in StrCodeImages :
          LET m  == load_program(load_program(EmptyMem, d).mem, c).mem
              r1 == ld(c.data[2], Advance(NewRegisters), m, Eof).regs
          IN  /\ mem = m
              /\ regs = Advance(r1)
              /\ instr = c.data[3]
              /\ phase = IF c.data[3] % 256 = PUTS THEN "puts" ELSE "putsp"
              /\ str_addr = Registers_read(r1, 0)
    /\ running = TRUE
    /\ term = "raw"
    /\ image = NoImage
    /\ loadResult = NoLoad
    /\ steps = 1
    /\ stdout = << >>
    /\ panic = "none"
    /\ aborted = FALSE
    /\ visited = << >>
    /\ seValue = 0
    /\ seBits = 1
    /\ seResult = NoResult

\* one iteration of the for loop of trap::puts
PutsIter ==
    /\ phase = "puts"
    /\ in_range(str_addr)
    /\ \E inp \in Inputs :
          LET rd == Memory_read(mem, str_addr, inp)
          IN  /\ mem' = rd.mem
              /\ visited' = Append(visited, str_addr)
              /\ IF rd.fault # "none"
                 THEN /\ phase' = "panicked"
                      /\ panic' = rd.fault
                      /\ UNCHANGED <<str_addr, stdout, steps>>
                 ELSE IF rd.value = 0
                 THEN /\ phase' = "running"
                      /\ steps' = steps + 1
                      /\ UNCHANGED <<str_addr, stdout, panic>>
                 ELSE /\ stdout' = Append(stdout, rd.value % 256)
                      /\ str_addr' = str_addr + 1
                      /\ UNCHANGED <<phase, steps, panic>>
    /\ UNCHANGED <<regs, running, term, image, loadResult, instr, aborted, seVars>>

\* the range of trap::puts is used up: the service returns
PutsEnd ==
    /\ phase = "puts"
    /\ ~in_range(str_addr)
    /\ phase' = "running"
    /\ steps' = steps + 1
    /\ UNCHANGED <<regs, mem, running, term, image, loadResult, instr, stdout, panic,
                   aborted, strVars, seVars>>

\* one iteration of the for loop of trap::putsp
PutspIter ==
    /\ phase = "putsp"
    /\ in_range(str_addr)
    /\ \E inp \in Inputs :
          LET rd == Memory_read(mem, str_addr, inp)
          IN  /\ mem' = rd.mem
              /\ visited' = Append(visited, str_addr)
              /\ IF rd.fault # "none"
                 THEN /\ phase' = "panicked"
                      /\ panic' = rd.fault
                      /\ UNCHANGED <<str_addr, stdout, steps>>
                 ELSE IF rd.value = 0
                 THEN /\ phase' = "running"
                      /\ steps' = steps + 1
                      /\ UNCHANGED <<str_addr, stdout, panic>>
                 ELSE /\ stdout' = stdout \o <<rd.value % 256, Shr(rd.value, 8)>>
                      /\ str_addr' = str_addr + 1
                      /\ UNCHANGED <<phase, steps, panic>>
    /\ UNCHANGED <<regs, running, term, image, loadResult, instr, aborted, seVars>>

\* the range of trap::putsp is used up: the service returns
PutspEnd ==
    /\ phase = "putsp"
    /\ ~in_range(str_addr)
    /\ phase' = "running"
    /\ steps' = steps + 1
    /\ UNCHANGED <<regs, mem, running, term, image, loadResult, instr, stdout, panic,
                   aborted, strVars, seVars>>

NextStr ==
    \/ PutsIter
    \/ PutsEnd
    \/ PutspIter
    \/ PutspEnd

\* the loops are straight-line code: an iteration that can run does run
SpecStr == InitStr /\ [][NextStr]_vars /\ WF_vars(NextStr)

-----------------------------------------------------------------------------
(* sign_extend on its own: every bit_count in 1..16 and every value that  *)
(* fits in bit_count bits                                                  *)

InitBits ==
    /\ VmInit
    /\ seBits \in 1 .. WordBits
    /\ seValue \in 0 .. (2 ^ seBits - 1)
    /\ seResult = NoResult

\* one call sign_extend(seValue, seBits)
SignExtendCall ==
    /\ ~seResult.done
    /\ \E o \in sign_extend(seValue, seBits) :
          seResult' = [done |-> TRUE, fault |-> o.fault, value |-> o.value]
    /\ UNCHANGED <<vmVars, seValue, seBits>>

NextBits == SignExtendCall

SpecBits == InitBits /\ [][NextBits]_vars

-----------------------------------------------------------------------------
(* Properties *)

\* the session is at an instruction boundary after a completed iteration
Completed == steps' = steps + 1 /\ phase' = "running"

\* the flag that describes the word v
FlagOf(v) == IF v = 0 THEN Zero ELSE IF v >= 32768 THEN Neg ELSE Pos

\* the n-bit field f read as a two's-complement number, as a 16-bit word
SignedField(f, n) == IF f >= 2 ^ (n - 1) THEN f + (65536 - 2 ^ n) ELSE f

\* C1: once run() has put the terminal in raw mode, every way out of run(),
\* the normal return as well as a panic inside the loop, leaves the terminal
\* in its original mode.
C1_TerminalRestoredOnEveryExit ==
    phase \in {"exited", "panicked"} => term = "original"

\* C2: no memory access fails on its index: every 16-bit address, 0xFFFF
\* included, is a valid index of the memory array.
C2_NoAccessFailsOnIndex == panic # "index"

\* C3: for every bit_count n in 1..16 and every value v < 2^n, sign_extend
\* returns, without a fault, v read as an n-bit two's-complement number.
C3_SignExtendTotalAndCorrect ==
    seResult.done =>
        /\ ~seResult.fault
        /\ seResult.value = SignedField(seValue, seBits)

\* opcodes whose handler sets the condition flag: ADD, LD, AND, LDR, NOT, LDI, LEA
FlagOps == {1, 2, 5, 6, 9, 10, 14}

\* opcodes whose handler must leave the flag alone: BR, ST, JSR, STR, STI, JMP
NoFlagOps == {0, 3, 4, 7, 11, 12}

\* bits 11:9 of an instruction word
DROf(i) == (i \div 512) % 8

\* C4: after every completed flag-setting instruction (ADD, AND, NOT, LD,
\* LDR, LDI, LEA) the condition flag describes the value now in DR: Zero iff
\* it is 0, Negative iff its bit 15 is set, Positive otherwise; and the flag
\* is always exactly one of the three.
C4_FlagFollowsDestination ==
    /\ [][(Completed /\ OpOf(instr') \in FlagOps)
            => regs'.cond = FlagOf(regs'.base_regs[DROf(instr')])]_vars
    /\ [](regs.cond \in {Neg, Zero, Pos})

C4_Witness ==
    /\ phase = "running"
    /\ instr = 40960
    /\ regs.base_regs[0] = 32768
    /\ regs.cond = Neg

\* C5: BR, ST, STR, STI, JMP/RET and JSR/JSRR leave the condition flag as
\* it was before the instruction, also when the instruction panics.
C5_FlagUntouched ==
    [][(steps' = steps + 1 /\ OpOf(instr') \in NoFlagOps)
        => regs'.cond = regs.cond]_vars

C5_Witness ==
    /\ phase = "running"
    /\ instr = 18437
    /\ steps = 2
    /\ regs.cond = Neg
    /\ regs.base_regs[7] = 12290

\* C6: loading a well-formed stream (origin word, then words w0..w(k-1),
\* then a clean end) into the fresh memory stores w_i at origin + i for every
\* i < k with origin + i <= 0xFFFF, stores nothing else, and succeeds.
C6_LoadWritesWholeImage ==
    (phase = "loaded" /\ image.end = "eof" /\ Len(image.data) >= 1) =>
        LET origin == image.data[1]
            k      == Len(image.data) - 1
            Target == {a \in origin .. 65535 : a - origin < k}
        IN  /\ loadResult.result = "Ok"
            /\ \A a \in Target \cup DOMAIN mem :
                  Cell(mem, a) = IF a \in Target THEN image.data[a - origin + 2] ELSE 0

C8_HaltOnlyStops ==
    [][(Completed /\ OpOf(instr') = 15 /\ instr' % 256 = 37)
        => /\ running' = FALSE
           /\ regs'.base_regs = regs.base_regs
           /\ regs'.cond = regs.cond
           /\ mem' = mem]_vars

C8_Witness ==
    /\ phase = "running"
    /\ instr = 61477
    /\ steps = 2
    /\ ~running
    /\ regs.base_regs[0] = 65535
    /\ regs.cond = Neg

\* C9: JSR with bit 11 set, fetched from address a, sets R7 = a + 1 and
\* PC = a + 1 + sign-extended PCoffset11, both modulo 2^16.
C9_JsrLinksAndJumps ==
    [][(Completed /\ OpOf(instr') = 4 /\ (instr' \div 2048) % 2 = 1)
        => /\ regs'.base_regs[7] = (regs.pc + 1) % 65536
           /\ regs'.pc = (regs.pc + 1 + SignedField(instr' % 2048, 11)) % 65536]_vars

C9_Witness ==
    /\ phase = "running"
    /\ instr = 18437
    /\ steps = 1
    /\ regs.base_regs[7] = 12289
    /\ regs.pc = 12294

\* C10: ADD writes DR = (SR1 + operand) mod 2^16, operand being SR2 when
\* bit 5 is 0 and the sign-extended imm5 when bit 5 is 1, and sets the flag
\* from that result; ADD R0,R0,#1 with R0 = 0xFFFF gives R0 = 0 and Zero.
C10_AddWraps ==
    [][(Completed /\ OpOf(instr') = 1)
        => LET sr1     == (instr' \div 64) % 8
               operand == IF (instr' \div 32) % 2 = 1
                          THEN SignedField(instr' % 32, 5)
                          ELSE regs.base_regs[instr' % 8]
               sum     == (regs.base_regs[sr1] + operand) % 65536
           IN  /\ regs'.base_regs[DROf(instr')] = sum
               /\ regs'.cond = FlagOf(sum)]_vars

C10_Witness ==
    /\ phase = "running"
    /\ instr = 4129
    /\ steps = 2
    /\ mem = (12288 :> 4159 @@ 12289 :> 4129)
    /\ regs.base_regs[0] = 0
    /\ regs.cond = Zero


\* the first address from a on that holds a zero word, or the end of the array
RECURSIVE FirstZero(_, _)
FirstZero(m, a) ==
    IF a >= MEMORY_SIZE \/ Cell(m, a) = 0 THEN a ELSE FirstZero(m, a + 1)

\* a completed iteration that executed TRAP with vector v
TrapDone(v) == Completed /\ OpOf(instr') = 15 /\ instr' % 256 = v

\* C11: TRAP PUTS with R0 = s prints the low 8 bits of the words at s, s+1,
\* ... that precede the first zero word, in address order, as memory.read
\* returns them; it reads nothing past that zero word, so the keyboard is
\* polled only when 0xFE00 lies in the string or is its terminator; R0, the
\* other registers and the flags stay as they are.
C11_PutsPrintsUpToZero ==
    [][TrapDone(PUTS) =>
        LET s == regs.base_regs[0]
            z == FirstZero(mem', s)
        IN  /\ stdout' = stdout \o [k \in 1 .. (z - s) |-> Cell(mem', s + k - 1) % 256]
            /\ regs'.base_regs = regs.base_regs
            /\ regs'.cond = regs.cond
            /\ (z < KBSR \/ s > KBSR) => mem' = mem
      ]_vars

\* PUTS has printed "HH" from the two words at 0x0100 and stopped at the zero
\* word behind them
C11_Witness ==
    /\ phase = "running"
    /\ instr = 61474
    /\ regs.base_regs[0] = 256
    /\ Cell(mem, 256) = 72 /\ Cell(mem, 257) = 328 /\ Cell(mem, 258) = 0
    /\ stdout = <<72, 72>>

\* the address a + 1 + sign_extend(PCoffset9, 9) of instruction i fetched from a
EffAddr(i, a) == (a + 1 + SignedField(i % 512, 9)) % 65536

\* C12: the PC is incremented before the instruction executes: for an
\* instruction fetched from a, with ea = (a + 1 + sign_extend(PCoffset9, 9))
\* mod 2^16, LEA puts ea in DR, LD puts the word at ea in DR, ST stores SR at
\* ea, LDI and STI take their pointer from ea, and a taken BR sets PC to ea;
\* none of them uses a + sign_extend(PCoffset9, 9).
C12_OffsetsFromIncrementedPc ==
    [][Completed =>
        LET i   == instr'
            op  == OpOf(instr')
            ea  == EffAddr(instr', regs.pc)
            reg == DROf(instr')
        IN  /\ op = 14 => regs'.base_regs[reg] = ea
            /\ op = 2 => regs'.base_regs[reg] = Cell(mem', ea)
            /\ op = 3 => mem' = SetCell(mem, ea, regs.base_regs[reg])
            /\ op = 10 => regs'.base_regs[reg] = Cell(mem', Cell(mem', ea))
            /\ (op = 11 /\ ea # KBSR) =>
                  Cell(mem', Cell(mem, ea)) = regs.base_regs[reg]
            /\ (op = 0 /\ And16(Shr(i, 9), regs.cond) # 0) => regs'.pc = ea
      ]_vars

\* LEA R0,#-1 fetched from 0x3000 has put 0x3000, not 0x2FFF, in R0
C12_Witness ==
    /\ phase = "running"
    /\ steps = 1
    /\ instr = 57855
    /\ regs.pc = 12289
    /\ regs.base_regs[0] = 12288

\* the cells of m and n agree everywhere but at the keyboard registers
SameButKeyboard(m, n) ==
    \A a \in (DOMAIN m \cup DOMAIN n) \ {KBSR, KBDR} : Cell(m, a) = Cell(n, a)

\* C13: a fetched word with bits 15..12 = 1000 (RTI) or 1101 (reserved) is
\* fatal: the session panics on the opcode, the instruction changes no
\* general register, no flag and no memory cell (the only cells that can
\* differ are those of the keyboard poll of a fetch from 0xFE00), and no
\* step follows a panic; a word of any other opcode never panics on its
\* opcode.
C13_IllegalOpcodesAreFatal ==
    [][/\ phase # "panicked"
       /\ steps' = steps + 1 =>
            LET op == instr' \div 4096
            IN  /\ (panic' = "opcode") <=> (op \in {8, 13})
                /\ op \in {8, 13} =>
                      /\ phase' = "panicked"
                      /\ regs'.base_regs = regs.base_regs
                      /\ regs'.cond = regs.cond
                      /\ regs'.pc = (regs.pc + 1) % 65536
                      /\ stdout' = stdout
                      /\ running' = running
                      /\ SameButKeyboard(mem, mem')
                      /\ regs.pc # KBSR => mem' = mem
      ]_vars

\* the reserved opcode was fetched after ADD R0,R0,#1: the session has
\* panicked with R0 still 1
C13_Witness ==
    /\ phase = "panicked"
    /\ panic = "opcode"
    /\ instr = 53248
    /\ steps = 2
    /\ regs.base_regs[0] = 1

\* an iteration whose fetch panicked: nothing was dispatched
FetchFailed == steps' = steps + 1 /\ regs' = regs /\ panic' \in {"index", "stdin"}

\* an iteration that fetched a TRAP word and dispatched it
TrapFetched == steps' = steps + 1 /\ ~FetchFailed /\ instr' \div 4096 = 15

\* what PUTS prints from address s, m being the memory as it is read
PutsText(m, s) ==
    [k \in 1 .. (FirstZero(m, s) - s) |-> Cell(m, s + k - 1) % 256]

\* what PUTSP prints from address s: of every word the low byte, then the high
PutspText(m, s) ==
    [k \in 1 .. 2 * (FirstZero(m, s) - s) |->
        LET w == Cell(m, s + (k - 1) \div 2)
        IN  IF k % 2 = 1 THEN w % 256 ELSE w \div 256]

\* C14: a TRAP whose low 8 bits are outside 0x20..0x25 is fatal: the session
\* panics on the vector, no service runs (nothing is printed), and no general
\* register, flag or memory cell changes; a TRAP whose low 8 bits are in
\* 0x20..0x25 runs the service of that vector, whatever bits 11..8 hold.
C14_TrapVectorSelectsService ==
    [][TrapFetched =>
        LET v == instr' % 256
            s == regs.base_regs[0]
        IN  IF v \in 32 .. 37
            THEN /\ panic' # "trap"
                 /\ v = GETC =>
                       /\ stdout' = stdout
                       /\ Completed => regs'.base_regs[0] \in InputBytes /\ running'
                 /\ v = OUT => stdout' = Append(stdout, s % 256) /\ running'
                 /\ (v = PUTS /\ Completed) =>
                       stdout' = stdout \o PutsText(mem', s) /\ running'
                 /\ v = IN_ =>
                       /\ stdout' = stdout \o Prompt
                       /\ Completed => regs'.base_regs[0] \in InputBytes /\ running'
                 /\ (v = PUTSP /\ Completed) =>
                       stdout' = stdout \o PutspText(mem', s) /\ running'
                 /\ v = HALT => stdout' = stdout \o HaltText /\ ~running'
            ELSE /\ panic' = "trap"
                 /\ phase' = "panicked"
                 /\ regs'.base_regs = regs.base_regs
                 /\ regs'.cond = regs.cond
                 /\ mem' = mem
                 /\ stdout' = stdout
                 /\ running' = running
      ]_vars

\* TRAP 0xFF25, vector 0x25 under bits 11..8 all set, has run the HALT service
C14_Witness ==
    /\ phase = "running"
    /\ instr = 65317
    /\ ~running
    /\ stdout = HaltText

\* C15: inside the loop only HALT stops the engine: running goes from true to
\* false only in an iteration that executes TRAP 0x25, or in a call of
\* abort(); a completed GETC, OUT, PUTS, IN or PUTSP leaves running true and
\* the PC at the address after the TRAP; while running is false no iteration
\* is taken.
C15_OnlyHaltStopsFromInside ==
    [][/\ (running /\ ~running') =>
             \/ TrapFetched /\ instr' % 256 = HALT
             \/ aborted' /\ steps' = steps
       /\ (TrapFetched /\ Completed /\ instr' % 256 \in {GETC, OUT, PUTS, IN_, PUTSP}) =>
             /\ running'
             /\ regs'.pc = (regs.pc + 1) % 65536
       /\ ~running => steps' = steps
      ]_vars

\* TRAP OUT at 0x3001 has printed one character and the loop goes on at 0x3002
C15_Witness ==
    /\ phase = "running"
    /\ running
    /\ instr = 61473
    /\ steps = 2
    /\ Len(stdout) = 1
    /\ regs.pc = 12290

\* C16: once abort() has been called the engine executes no further
\* instruction, wherever the call falls relative to run(), a call made before
\* run() included.
C16_AbortStopsEngine == [][aborted => steps' = steps]_vars

\* C17: a read of the keyboard status address 0xFE00 polls one input byte:
\* whatever byte 0..255 it gets, the status word is 0x8000 and the data word
\* 0xFE02 is that byte afterwards; a read of another address changes no
\* memory cell. Stated for the reads of LDI and LD: an LDI whose pointer is
\* 0xFE00 has taken a byte when it completes.
C17_StatusReadPolls ==
    [][Completed =>
        LET op == OpOf(instr')
            ea == EffAddr(instr', regs.pc)
        IN  /\ (op = 10 /\ Cell(mem, ea) = KBSR) =>
                  /\ Cell(mem', KBSR) = 32768
                  /\ Cell(mem', KBDR) \in InputBytes
                  /\ regs'.base_regs[DROf(instr')] = 32768
            /\ (op = 2 /\ ea # KBSR /\ regs.pc # KBSR) => mem' = mem
      ]_vars

\* C18: TRAP PUTSP with R0 = s goes through the words at s, s+1, ... in
\* address order up to the first word that is entirely zero, and prints of
\* every word before it the low byte and then the high byte; a word with a
\* nonzero low byte and a zero high byte is printed like the others and does
\* not end the string.
C18_PutspPrintsBothBytes ==
    [][TrapDone(PUTSP) =>
        LET s == regs.base_regs[0]
            z == FirstZero(mem', s)
            n == Len(stdout)
        IN  /\ Len(stdout') = n + 2 * (z - s)
            /\ SubSeq(stdout', 1, n) = stdout
            /\ \A k \in 0 .. (z - s - 1) :
                  /\ stdout'[n + 2 * k + 1] = Cell(mem', s + k) % 256
                  /\ stdout'[n + 2 * k + 2] = Cell(mem', s + k) \div 256
            /\ regs'.base_regs = regs.base_regs
      ]_vars

\* PUTSP has printed 'H', 0 for the word 0x0048 and gone on to print 'H', 1
\* for the word 0x0148 behind it
C18_Witness ==
    /\ phase = "running"
    /\ instr = 61476
    /\ regs.base_regs[0] = 256
    /\ Cell(mem, 256) = 72 /\ Cell(mem, 257) = 328 /\ Cell(mem, 258) = 0
    /\ stdout = <<72, 0, 72, 1>>

\* C19: BR fetched from a sets PC to a + 1 + sign_extend(PCoffset9, 9) when
\* the bit of its nzp field that matches the current flag (n for Neg, z for
\* Zero, p for Pos) is set, and leaves PC at a + 1 otherwise; nzp = 000 never
\* branches and nzp = 111 always does; BR changes no general register, no
\* flag and no memory cell (the only cells that can differ are those of the
\* keyboard poll of a fetch from 0xFE00).
C19_BrFollowsFlag ==
    [][(steps' = steps + 1 /\ ~FetchFailed /\ instr' \div 4096 = 0) =>
        LET nzp   == (instr' \div 512) % 8
            taken == (nzp \div regs.cond) % 2 = 1
            ea    == EffAddr(instr', regs.pc)
            next  == (regs.pc + 1) % 65536
        IN  /\ regs'.pc = IF taken THEN ea ELSE next
            /\ nzp = 0 => regs'.pc = next
            /\ nzp = 7 => regs'.pc = ea
            /\ regs'.base_regs = regs.base_regs
            /\ regs'.cond = regs.cond
            /\ SameButKeyboard(mem, mem')
            /\ regs.pc # KBSR => mem' = mem
            /\ phase' = phase
      ]_vars

\* after ADD R0,R0,#-1 the flag is Neg and BRn +1 at 0x3001 has branched to
\* 0x3003
C19_Witness ==
    /\ phase = "running"
    /\ steps = 2
    /\ instr = 2049
    /\ regs.cond = Neg
    /\ regs.pc = 12291

\* C20: the PC wraps modulo 2^16 without a fault: from every PC, 0xFFFF
\* included, the fetch of an iteration succeeds on its index.
C20_FetchNeverFaultsOnIndex ==
    [][steps' = steps + 1 => ~(FetchFailed /\ panic' = "index")]_vars

\* C21: PUTS and PUTSP always come to an end, whatever R0 and the memory
\* hold: the loop is left by a zero word, by the end of the address range, or
\* by the panic of a keyboard poll that finds stdin at its end; the addresses
\* it has read are R0, R0 + 1, ... in this order, each once, all within the
\* 16-bit address space, so it never wraps around to 0x0000.
C21_StringServicesTerminate ==
    <>(/\ phase = "running" \/ (phase = "panicked" /\ panic = "stdin")
       /\ \A k \in 1 .. Len(visited) :
             /\ visited[k] = regs.base_regs[0] + k - 1
             /\ visited[k] < WordMod)

\* PUTS has read 0xFFFD and 0xFFFE, found no zero word, and returned at the
\* end of the range
C21_Witness ==
    /\ phase = "running"
    /\ instr = 61474
    /\ visited = <<65533, 65534>>
    /\ str_addr = 65535
    /\ stdout = <<72, 72>>

\* C22: JSRR (opcode JSR with bit 11 = 0) fetched from a writes a + 1 to R7
\* before it reads BaseR: for BaseR = R0..R6 the new PC is what BaseR held
\* before the instruction, for BaseR = R7 the new PC is a + 1 and what R7
\* held before is lost.
C22_JsrrLinksBeforeBaseRead ==
    [][(Completed /\ OpOf(instr') = 4 /\ (instr' \div 2048) % 2 = 0)
        => LET base == (instr' \div 64) % 8
               link == (regs.pc + 1) % 65536
           IN  /\ regs'.base_regs[7] = link
               /\ regs'.pc = IF base = 7 THEN link ELSE regs.base_regs[base]
               /\ \A k \in 0 .. 6 : regs'.base_regs[k] = regs.base_regs[k]]_vars

\* JSRR R7 at 0x3000 with R7 = 0 has gone on at 0x3001, not at 0
C22_Witness ==
    /\ phase = "running"
    /\ instr = 16832
    /\ steps = 1
    /\ regs.base_regs[7] = 12289
    /\ regs.pc = 12289

\* C23: load_program changes memory only: whatever the stream and its origin
\* word, and whether it returns Ok or Err, the PC, the eight registers, the
\* flag and running are as before; so the first iteration of a run fetches
\* from 0x3000 wherever the image was put.
C23_LoadTouchesMemoryOnly ==
    [][/\ (phase' \in {"data", "loaded"} /\ phase' # phase) =>
             /\ regs' = regs
             /\ running' = running
       /\ (steps = 0 /\ steps' = 1) =>
             /\ regs.pc = PC_START
             /\ instr' = Cell(mem, PC_START)
      ]_vars

\* an image was loaded at 0xFFFE and the first iteration has fetched the
\* zero word at 0x3000
C23_Witness ==
    /\ phase = "running"
    /\ steps = 1
    /\ Cell(mem, 65534) # 0
    /\ Cell(mem, 12288) = 0
    /\ instr = 0
    /\ regs.pc = 12289

=============================================================================
